---- MODULE Spec2Model ----
(***************************************************************************)
(* Model of cephperftests/ceph_perf.py: the JSON topology record of a      *)
(* Ceph performance-test cluster, the operations that add machines to it   *)
(* and the provisioning steps that run playbooks against them.             *)
(*                                                                         *)
(* Python values are modelled as tagged records (str, int, dict, list,     *)
(* None).  A dict is the ordered sequence of its <<key, value>> pairs, as  *)
(* in collections.OrderedDict.  A file on disk is the sequence of JSON     *)
(* tokens json.dump wrote; json.load parses it back.                       *)
(***************************************************************************)
EXTENDS Integers, Sequences, FiniteSets, TLC

VARIABLES disk, mem, log, result, op, nextId

vars == <<disk, mem, log, result, op, nextId>>

(* ----------------------------- bounds ---------------------------------- *)

MaxLinodes == 3
MaxServers == 2
MaxClients == 3

Names == {"t1"}
Datacenters == {6, 7}

(* --------------------------- Python values ----------------------------- *)

S(s) == [t |-> "str", s |-> s, n |-> 0, items |-> <<>>]
N(n) == [t |-> "int", s |-> "", n |-> n, items |-> <<>>]
D(items) == [t |-> "dict", s |-> "", n |-> 0, items |-> items]
L(items) == [t |-> "list", s |-> "", n |-> 0, items |-> items]
NoneV == [t |-> "none", s |-> "", n |-> 0, items |-> <<>>]

Has(d, k) == \E i \in 1..Len(d.items) : d.items[i][1] = k

Get(d, k) == d.items[CHOOSE i \in 1..Len(d.items) : d.items[i][1] = k][2]

\* d[k] = v on an OrderedDict: an existing key keeps its position, a new
\* key goes last.
Put(d, k, v) ==
    IF Has(d, k)
    THEN D([i \in 1..Len(d.items) |->
              IF d.items[i][1] = k THEN <<k, v>> ELSE d.items[i]])
    ELSE D(Append(d.items, <<k, v>>))

\* lst[i] = v for a 1-based position i of a list value.
SetAt(lst, i, v) == L([j \in 1..Len(lst.items) |-> IF j = i THEN v ELSE lst.items[j]])

RECURSIVE OrderedDict(_, _, _)
OrderedDict(pairs, i, acc) ==
    IF i > Len(pairs) THEN acc
    ELSE OrderedDict(pairs, i + 1, Put(acc, pairs[i][1], pairs[i][2]))

(* ------------------------------- JSON ---------------------------------- *)

Tok(k) == [k |-> k, s |-> "", n |-> 0]
TokStr(s) == [k |-> "str", s |-> s, n |-> 0]
TokInt(n) == [k |-> "int", s |-> "", n |-> n]

RECURSIVE json_dump(_)
RECURSIVE DumpMembers(_, _)
RECURSIVE DumpElements(_, _)

json_dump(v) ==
    CASE v.t = "str"  -> <<TokStr(v.s)>>
      [] v.t = "int"  -> <<TokInt(v.n)>>
      [] v.t = "none" -> <<Tok("null")>>
      [] v.t = "dict" -> <<Tok("{")>> \o DumpMembers(v.items, 1) \o <<Tok("}")>>
      [] v.t = "list" -> <<Tok("[")>> \o DumpElements(v.items, 1) \o <<Tok("]")>>

DumpMembers(items, i) ==
    IF i > Len(items) THEN <<>>
    ELSE (IF i > 1 THEN <<Tok(",")>> ELSE <<>>)
         \o <<TokStr(items[i][1]), Tok(":")>> \o json_dump(items[i][2])
         \o DumpMembers(items, i + 1)

DumpElements(items, i) ==
    IF i > Len(items) THEN <<>>
    ELSE (IF i > 1 THEN <<Tok(",")>> ELSE <<>>)
         \o json_dump(items[i]) \o DumpElements(items, i + 1)

\* The parser returns the value read and the position after it.
RECURSIVE ParseValue(_, _)
RECURSIVE ParseMembers(_, _, _)
RECURSIVE ParseElements(_, _, _)
RECURSIVE AfterMember(_, _, _, _)
RECURSIVE AfterElement(_, _, _)

RECURSIVE Reverse(_)
Reverse(sq) == IF sq = <<>> THEN <<>> ELSE Append(Reverse(Tail(sq)), Head(sq))

\* json.load without the hook builds a plain dict, whose order is not the
\* order of the file.
unordered_pairs_hook(pairs) == D(Reverse(OrderedDict(pairs, 1, D(<<>>)).items))

\* object_pairs_hook = collections.OrderedDict: the pairs in the order read;
\* a repeated key keeps its first position and its last value.
object_pairs_hook(pairs) ==
    IF Cardinality({pairs[i][1] : i \in 1..Len(pairs)}) = Len(pairs)
    THEN D(pairs)
    ELSE OrderedDict(pairs, 1, D(<<>>))

ParseValue(toks, i) ==
    CASE toks[i].k = "str"  -> [v |-> S(toks[i].s), i |-> i + 1]
      [] toks[i].k = "int"  -> [v |-> N(toks[i].n), i |-> i + 1]
      [] toks[i].k = "null" -> [v |-> NoneV, i |-> i + 1]
      [] toks[i].k = "{"    -> ParseMembers(toks, i + 1, <<>>)
      [] toks[i].k = "["    -> ParseElements(toks, i + 1, <<>>)

ParseMembers(toks, i, acc) ==
    IF toks[i].k = "}" THEN [v |-> object_pairs_hook(acc), i |-> i + 1]
    ELSE IF toks[i].k = "," THEN ParseMembers(toks, i + 1, acc)
    ELSE AfterMember(toks, toks[i].s, acc, ParseValue(toks, i + 2))

\* r is the member's value and the position after it.
AfterMember(toks, key, acc, r) == ParseMembers(toks, r.i, Append(acc, <<key, r.v>>))

ParseElements(toks, i, acc) ==
    IF toks[i].k = "]" THEN [v |-> L(acc), i |-> i + 1]
    ELSE IF toks[i].k = "," THEN ParseElements(toks, i + 1, acc)
    ELSE AfterElement(toks, acc, ParseValue(toks, i))

AfterElement(toks, acc, r) == ParseElements(toks, r.i, Append(acc, r.v))

json_load(toks) == ParseValue(toks, 1).v

(* --------------------------- Topology store ---------------------------- *)

conf_dir == "./cephperfdata"

\* The file <conf_dir>/<name>/<name>.json; <<>> stands for "no such file".
NoFile == <<>>

load_cluster(d, name) ==
    IF d[name] = NoFile THEN NoneV ELSE json_load(d[name])

save_cluster(d, cluster) ==
    [d EXCEPT ![Get(cluster, "name").s] = json_dump(cluster)]

NoOp == [name |-> "idle", cluster |-> "", arg |-> 0]

Init ==
    /\ disk = [nm \in Names |-> NoFile]
    /\ mem = NoneV
    /\ log = <<>>
    /\ result = "idle"
    /\ op = NoOp
    /\ nextId = 1

\* No run of the script is in progress.
Idle == op = NoOp

\* The script ends: the record in memory and what the run printed and called
\* are gone, the files stay.  The next run starts from the files.
process_exit ==
    /\ ~Idle
    /\ op' = NoOp
    /\ mem' = NoneV
    /\ log' = <<>>
    /\ result' = "idle"
    /\ UNCHANGED <<disk, nextId>>

(* ---------------------------- create_cluster --------------------------- *)

new_cluster(name, datacenter) ==
    D(<< <<"name", S(name)>>, <<"dc", N(datacenter)>>, <<"admin", D(<<>>)>>,
         <<"monitors", L(<<>>)>>, <<"servers", L(<<>>)>>, <<"clients", L(<<>>)>> >>)

Printed(msg, arg) == [e |-> "print", name |-> msg, target |-> S(arg), vars |-> NoneV, ok |-> TRUE]

\* create_cluster without the load_cluster test.
create_cluster_overwrite(name, datacenter) ==
    /\ Idle
    /\ op' = [name |-> "create_cluster", cluster |-> name, arg |-> datacenter]
    /\ UNCHANGED nextId
    /\ result' = IF load_cluster(disk, name) # NoneV THEN "exists" ELSE "ok"
    /\ log' = <<>>
    /\ mem' = IF load_cluster(disk, name) # NoneV THEN NoneV
              ELSE new_cluster(name, datacenter)
    /\ disk' = save_cluster(disk, new_cluster(name, datacenter))

create_cluster(name, datacenter) ==
    /\ Idle
    /\ op' = [name |-> "create_cluster", cluster |-> name, arg |-> datacenter]
    /\ UNCHANGED nextId
    /\ IF load_cluster(disk, name) # NoneV
       THEN /\ result' = "exists"
            /\ log' = <<Printed("Cluster already exists", name)>>
            /\ mem' = NoneV
            /\ UNCHANGED disk
       ELSE /\ result' = "ok"
            /\ log' = <<>>
            /\ mem' = new_cluster(name, datacenter)
            /\ disk' = save_cluster(disk, new_cluster(name, datacenter))

(* ------------------------ external collaborators ----------------------- *)

\* Core.create_linode: the machine the provider hands out for the next id.
\* linode.public_ip is a list whose first element is used.
create_linode(id) ==
    [id |-> id,
     public_ip |-> <<"192.168.1." \o ToString(id)>>,
     private_ip |-> "10.0.0." \o ToString(id)]

\* The content of a fetched public-key file after f.read().strip('\n').
pubkey_of(node) == "ssh-rsa KEY" \o ToString(Get(node, "id").n)

\* os.path.abspath of a path below conf_dir().
abspath(rel) == "/cwd/cephperfdata/" \o rel

Ping(ip, ok) ==
    [e |-> "ping", name |-> "wait_for_ping", target |-> S(ip), vars |-> NoneV, ok |-> ok]

Playbook(target, name, variables) ==
    [e |-> "playbook", name |-> name, target |-> target, vars |-> variables, ok |-> TRUE]

error_msg(msg) ==
    [e |-> "error_msg", name |-> msg, target |-> NoneV, vars |-> NoneV, ok |-> FALSE]

RECURSIVE join(_, _, _)
\* sep.join(strs[i..])
join(sep, strs, i) ==
    IF i > Len(strs) THEN ""
    ELSE IF i = Len(strs) THEN strs[i]
    ELSE strs[i] \o sep \o join(sep, strs, i + 1)

\* What an operation leaves behind: the in-memory record, the disk, the
\* calls it made and how it ended.
Outcome(m, d, l, r) == [mem |-> m, disk |-> d, log |-> l, result |-> r]

\* op records which operation ran last, on which cluster and with which
\* argument (the datacenter of create_cluster, the position of the server).
Finish(outcome, opname, name, arg) ==
  \E o \in {outcome} :
    /\ mem' = o.mem
    /\ disk' = o.disk
    /\ log' = o.log
    /\ result' = o.result
    /\ op' = [name |-> opname, cluster |-> name, arg |-> arg]

(* ---------------------- update_storage_fqdn_entries -------------------- *)

host_entry(node) ==
    D(<< <<"ip", Get(node, "private_ip")>>, <<"fqdn", Get(node, "fqdn")>>,
         <<"shortname", Get(node, "shortname")>> >>)

\* The loop over cluster['monitors'] left out.
storage_nodes_no_monitors(cluster) ==
    <<Get(cluster, "admin")>> \o Get(cluster, "servers").items

storage_nodes(cluster) ==
    <<Get(cluster, "admin")>> \o Get(cluster, "monitors").items
                              \o Get(cluster, "servers").items

\* The single exec_playbook call of update_storage_fqdn_entries.
update_storage_fqdn_entries(cluster) ==
    LET nodes == storage_nodes(cluster)
    IN  Playbook(L([i \in 1..Len(nodes) |-> Get(nodes[i], "public_ip")]),
                 "ansible/modify_hosts_file.yaml",
                 D(<< <<"host_entries", L([i \in 1..Len(nodes) |-> host_entry(nodes[i])])>>,
                      <<"cluster", Get(cluster, "name")>> >>))

(* ---------------------------- add_*_node ------------------------------- *)

new_node(linode) ==
    D(<< <<"id", N(linode.id)>>, <<"public_ip", S(linode.public_ip[1])>>,
         <<"private_ip", S(linode.private_ip)>> >>)

named(node, fqdn, shortname) ==
    Put(Put(node, "fqdn", S(fqdn)), "shortname", S(shortname))

add_admin_mon_node_body(cluster, d, linode) ==
    LET name == Get(cluster, "name").s
        admin == named(new_node(linode), "cephadmin." \o name, "cephadmin")
        \* monitor = admin.copy(), then renamed
        monitor == named(admin, "cephmon1." \o name, "cephmon1")
        c1 == Put(cluster, "admin", admin)
        c2 == Put(c1, "monitors", L(<<monitor>>))
    IN  Outcome(c2, save_cluster(d, c2), <<>>, "ok")

add_mon_node_body(cluster, d, linode) ==
    LET name == Get(cluster, "name").s
        mon == named(new_node(linode), "cephmon1." \o name, "cephmon1")
        c1 == Put(cluster, "monitors", L(<<mon>>))
    IN  Outcome(c1, save_cluster(d, c1), <<>>, "ok")

\* server_index without the + 1.
add_server_body_zero_based(cluster, d, linode) ==
    LET name == Get(cluster, "name").s
        server_index == Len(Get(cluster, "servers").items)
        server == named(new_node(linode),
                        "cephosdrgw" \o ToString(server_index) \o "." \o name,
                        "cephosdrgw" \o ToString(server_index))
        c1 == Put(cluster, "servers", L(Append(Get(cluster, "servers").items, server)))
    IN  Outcome(c1, save_cluster(d, c1), <<>>, "ok")

add_server_body(cluster, d, linode) ==
    LET name == Get(cluster, "name").s
        server_index == Len(Get(cluster, "servers").items) + 1
        server == named(new_node(linode),
                        "cephosdrgw" \o ToString(server_index) \o "." \o name,
                        "cephosdrgw" \o ToString(server_index))
        c1 == Put(cluster, "servers", L(Append(Get(cluster, "servers").items, server)))
    IN  Outcome(c1, save_cluster(d, c1), <<>>, "ok")

\* The record is touched and saved before the machine is looked at.
no_machine_saved(cluster, d, errmsg) ==
    Outcome(cluster,
            save_cluster(d, Put(cluster, "servers",
                                L(Append(Get(cluster, "servers").items, D(<<>>))))),
            <<error_msg(errmsg)>>, "error")

\* if not linode: logger.error_msg(...); return
no_machine(cluster, d, errmsg) == Outcome(cluster, d, <<error_msg(errmsg)>>, "error")

\* The model stops adding servers at MaxServers and clients at MaxClients.
ServerRoom(cluster) == Len(Get(cluster, "servers").items) < MaxServers
ClientRoom(cluster) == Len(Get(cluster, "clients").items) < MaxClients

\* Each add_* function loads the record, asks the provider for a machine
\* and gives up if there is none.
add_admin_mon_node(name) ==
    Idle /\ \E cluster \in {load_cluster(disk, name)} : \E created \in BOOLEAN :
        /\ created => nextId <= MaxLinodes
        /\ nextId' = IF created /\ cluster # NoneV THEN nextId + 1 ELSE nextId
        /\ Finish(IF cluster = NoneV
                  THEN Outcome(NoneV, disk, <<>>, "TypeError")    \* cluster['dc']
                  ELSE IF ~created
                  THEN no_machine(cluster, disk, "Could not create admin node")
                  ELSE add_admin_mon_node_body(cluster, disk, create_linode(nextId)),
                  "add_admin_mon_node", name, 0)

add_mon_node(name) ==
    Idle /\ \E cluster \in {load_cluster(disk, name)} : \E created \in BOOLEAN :
        /\ created => nextId <= MaxLinodes
        /\ nextId' = IF created /\ cluster # NoneV THEN nextId + 1 ELSE nextId
        /\ Finish(IF cluster = NoneV
                  THEN Outcome(NoneV, disk, <<>>, "TypeError")    \* cluster['dc']
                  ELSE IF ~created
                  THEN no_machine(cluster, disk, "Could not create mon node")
                  ELSE add_mon_node_body(cluster, disk, create_linode(nextId)),
                  "add_mon_node", name, 0)

add_server(name) ==
    Idle /\ \E cluster \in {load_cluster(disk, name)} : \E created \in BOOLEAN :
        /\ created => nextId <= MaxLinodes
        /\ (created /\ cluster # NoneV) => ServerRoom(cluster)
        /\ nextId' = IF created /\ cluster # NoneV THEN nextId + 1 ELSE nextId
        /\ Finish(IF cluster = NoneV
                  THEN Outcome(NoneV, disk, <<>>, "TypeError")    \* cluster['dc']
                  ELSE IF ~created
                  THEN no_machine(cluster, disk, "Could not create server node")
                  ELSE add_server_body(cluster, disk, create_linode(nextId)),
                  "add_server", name, 0)

\* What the environment does during a provisioning run: whether the node
\* answers wait_for_ping and whether the playbook left the public-key file.
\* When the wait is checked and fails, the key file is never looked at.
Env0 == [reachable |-> FALSE, fetched |-> FALSE]
Env == {Env0, [reachable |-> TRUE, fetched |-> FALSE], [reachable |-> TRUE, fetched |-> TRUE]}

(* --------------------------- provision_* ------------------------------- *)

pubkeys_dir(cluster) == Get(cluster, "name").s \o "/pubkeys"

set_admin(cluster, admin) == Put(cluster, "admin", admin)

\* mon['pubkey'] = pubkey left out.
set_monitor0_skipped(cluster, mon) == cluster

set_monitor0(cluster, mon) ==
    Put(cluster, "monitors", SetAt(Get(cluster, "monitors"), 1, mon))

\* provision_admin_mon(cluster, cluster['admin']): admin is the object held
\* by the cluster record, so every assignment to it shows in the record.
provision_admin_mon(cluster, d, reachable, fetched) ==
    LET admin0 == Get(cluster, "admin")
        admin_ip == Get(admin0, "public_ip").s
        admin1 == Put(admin0, "hostname", S("cephadminmon"))
        c1 == set_admin(cluster, admin1)
        pubkey_file == abspath(pubkeys_dir(cluster) \o "/" \o Get(admin0, "fqdn").s \o ".pub")
        log1 == << Ping(admin_ip, TRUE),
                   Playbook(S(admin_ip), "ansible/change_hostname.yaml",
                            D(<< <<"new_hostname", Get(admin1, "hostname")>> >>)),
                   update_storage_fqdn_entries(c1),
                   Playbook(S(admin_ip), "ansible/ceph_admin_node.yaml",
                            D(<< <<"local_pubkey_file", S(pubkey_file)>> >>)) >>
        pubkey == pubkey_of(admin0)
        admin2 == Put(admin1, "pubkey", S(pubkey))
        mon == Put(Get(cluster, "monitors").items[1], "pubkey", S(pubkey))
        c2 == IF fetched THEN set_monitor0(set_admin(c1, admin2), mon) ELSE c1
        d2 == IF fetched THEN save_cluster(d, c2) ELSE d
        log2 == IF fetched THEN log1
                ELSE Append(log1, Printed("Error: public key not found", pubkey_file))
        log3 == Append(log2,
                   Playbook(S(admin_ip), "ansible/add_authorized_keys.yaml",
                            D(<< <<"keys", S(Get(Get(c2, "admin"), "pubkey").s \o "\n")>>,
                                 <<"cluster", Get(cluster, "name")>> >>)))
        log4 == Append(log3,
                   Playbook(S(admin_ip), "ansible/create_cluster.yaml",
                            D(<< <<"mon", mon>>, <<"cluster_name", Get(cluster, "name")>> >>)))
    IN  IF ~Has(admin0, "public_ip")
        THEN Outcome(cluster, d, <<>>, "KeyError")
        ELSE IF ~reachable
        THEN Outcome(cluster, d,
                     <<Ping(admin_ip, FALSE), Printed("Unable to reach over SSH", admin_ip)>>,
                     "unreachable")
        ELSE IF ~Has(Get(c2, "admin"), "pubkey")
        THEN Outcome(c2, d2, log2, "KeyError")      \* admin['pubkey']
        ELSE IF ~fetched
        THEN Outcome(c2, d2, log3, "NameError")     \* mon is not bound
        ELSE Outcome(c2, d2, log4, "ok")

\* provision_server(cluster, cluster['servers'][i])
provision_server(cluster, i, d, reachable, fetched) ==
    LET server0 == Get(cluster, "servers").items[i]
        server_ip == Get(server0, "public_ip").s
        pubkey_file == abspath(pubkeys_dir(cluster) \o "/" \o Get(server0, "fqdn").s \o ".pub")
        log1 == << Ping(server_ip, reachable),
                   Playbook(S(server_ip), "ansible/change_hostname.yaml",
                            D(<< <<"new_hostname", S(Get(server0, "shortname").s \o "local")>> >>)),
                   Playbook(S(server_ip), "ansible/ceph_server.yaml",
                            D(<< <<"local_pubkey_file", S(pubkey_file)>> >>)) >>
        server1 == Put(server0, "pubkey", S(pubkey_of(server0)))
        c1 == IF fetched
              THEN Put(cluster, "servers", SetAt(Get(cluster, "servers"), i, server1))
              ELSE cluster
        d1 == IF fetched THEN save_cluster(d, c1) ELSE d
        log2 == IF fetched THEN log1
                ELSE Append(log1, Printed("Error: public key not found", pubkey_file))
        admin == Get(cluster, "admin")
        log3 == Append(log2,
                   Playbook(S(server_ip), "ansible/add_authorized_keys.yaml",
                            D(<< <<"keys", S(Get(admin, "pubkey").s \o "\n")>>,
                                 <<"cluster", Get(cluster, "name")>> >>)))
    IN  IF ~Has(admin, "pubkey")
        THEN Outcome(c1, d1, log2, "KeyError")      \* cluster['admin']['pubkey']
        ELSE Outcome(c1, d1, log3, "ok")

\* cluster['clients'] without the [:-1].
all_clients(cluster) == Get(cluster, "clients").items

\* cluster['clients'][:-1]
earlier_clients(cluster) ==
    SubSeq(Get(cluster, "clients").items, 1, Len(Get(cluster, "clients").items) - 1)

\* provision_client(cluster, client), called by add_client only: client is
\* the last entry of cluster['clients'].
provision_client(cluster, d, reachable, fetched) ==
    LET clients == Get(cluster, "clients").items
        servers == Get(cluster, "servers").items
        k == Len(clients)
        client0 == clients[k]
        client_ip == Get(client0, "public_ip").s
        pubkey_dir == ToString(Get(client0, "id").n)
        pubkey_file == conf_dir \o "/" \o pubkey_dir \o "/id_rsa.pub"
        log1 == << Ping(client_ip, TRUE),
                   Playbook(S(client_ip), "ansible/perf_client.yaml",
                            D(<< <<"pubkey_dir", S(abspath(pubkey_dir))>> >>)) >>
        client1 == IF fetched THEN Put(client0, "pubkey", S(pubkey_of(client0))) ELSE client0
        c1 == IF fetched
              THEN Put(cluster, "clients", SetAt(Get(cluster, "clients"), k, client1))
              ELSE cluster
        d1 == IF fetched THEN save_cluster(d, c1) ELSE d
        log2 == IF fetched THEN log1
                ELSE Append(log1, Printed("Error: public key not found", pubkey_file))
        others == earlier_clients(c1) \o servers
        other_keys == [i \in 1..Len(others) |-> Get(others[i], "pubkey").s]
        log3 == Append(log2,
                   Playbook(S(client_ip), "ansible/add_authorized_keys.yaml",
                            D(<< <<"keys", S("\n\n" \o join("\n", other_keys, 1) \o "\n")>> >>)))
        targets == L([i \in 1..Len(others) |-> Get(others[i], "public_ip")])
        log4 == Append(log3,
                   Playbook(targets, "ansible/add_authorized_keys.yaml",
                            D(<< <<"keys", S(Get(client1, "pubkey").s \o "\n")>> >>)))
    IN  IF ~reachable
        THEN Outcome(cluster, d,
                     <<Ping(client_ip, FALSE), Printed("Unable to reach over SSH", client_ip)>>,
                     "unreachable")
        ELSE IF \E i \in 1..Len(others) : ~Has(others[i], "pubkey")
        THEN Outcome(c1, d1, log2, "KeyError")      \* c['pubkey'] or s['pubkey']
        ELSE IF other_keys = <<>>
        THEN Outcome(c1, d1, log2, "ok")
        ELSE IF ~Has(client1, "pubkey")
        THEN Outcome(c1, d1, log3, "KeyError")      \* client['pubkey']
        ELSE Outcome(c1, d1, log4, "ok")

add_client_body(cluster, d, linode, reachable, fetched) ==
    LET client == new_node(linode)
        c1 == Put(cluster, "clients", L(Append(Get(cluster, "clients").items, client)))
    IN  provision_client(c1, save_cluster(d, c1), reachable, fetched)

add_client(name) ==
    Idle /\ \E cluster \in {load_cluster(disk, name)} :
    \E created \in BOOLEAN : \E env \in (IF created THEN Env ELSE {Env0}) :
        /\ created => nextId <= MaxLinodes
        /\ (created /\ cluster # NoneV) => ClientRoom(cluster)
        /\ nextId' = IF created /\ cluster # NoneV THEN nextId + 1 ELSE nextId
        /\ Finish(IF cluster = NoneV
                  THEN Outcome(NoneV, disk, <<>>, "TypeError")
                  ELSE IF ~created
                  THEN no_machine(cluster, disk, "Could not create perf client")
                  ELSE add_client_body(cluster, disk, create_linode(nextId),
                                       env.reachable, env.fetched),
                  "add_client", name, 0)

(* ------------------------------ the driver ----------------------------- *)

\* cluster = load_cluster(name); provision_admin_mon(cluster, cluster['admin'])
run_provision_admin_mon(name) ==
    Idle /\ \E cluster \in {load_cluster(disk, name)} : \E env \in Env :
        /\ cluster # NoneV
        /\ UNCHANGED nextId
        /\ Finish(provision_admin_mon(cluster, disk, env.reachable, env.fetched),
                  "provision_admin_mon", name, 0)

\* cluster = load_cluster(name); provision_server(cluster, cluster['servers'][i])
run_provision_server(name) ==
    Idle /\ \E cluster \in {load_cluster(disk, name)} :
        /\ cluster # NoneV
        /\ \E i \in 1..Len(Get(cluster, "servers").items) :
           \E reachable, fetched \in BOOLEAN :
              /\ UNCHANGED nextId
              /\ Finish(provision_server(cluster, i, disk, reachable, fetched),
                        "provision_server", name, i)

\* cluster = load_cluster(name); update_storage_fqdn_entries(cluster)
run_update_storage_fqdn_entries(name) ==
    Idle /\ \E cluster \in {load_cluster(disk, name)} :
        /\ cluster # NoneV
        /\ UNCHANGED nextId
        /\ Finish(IF ~Has(Get(cluster, "admin"), "private_ip")
                  THEN Outcome(cluster, disk, <<>>, "KeyError")
                  ELSE Outcome(cluster, disk, <<update_storage_fqdn_entries(cluster)>>, "ok"),
                  "update_storage_fqdn_entries", name, 0)

Next ==
    \/ \E nm \in Names, dc \in Datacenters : create_cluster(nm, dc)
    \/ \E nm \in Names : add_admin_mon_node(nm)
    \/ \E nm \in Names : add_mon_node(nm)
    \/ \E nm \in Names : add_server(nm)
    \/ \E nm \in Names : add_client(nm)
    \/ \E nm \in Names : run_provision_admin_mon(nm)
    \/ \E nm \in Names : run_provision_server(nm)
    \/ \E nm \in Names : run_update_storage_fqdn_entries(nm)
    \/ process_exit

Spec == Init /\ [][Next]_vars

\* The combined admin+monitor path: every operation but add_mon_node.
NextCombined ==
    \/ \E nm \in Names, dc \in Datacenters : create_cluster(nm, dc)
    \/ \E nm \in Names : add_admin_mon_node(nm)
    \/ \E nm \in Names : add_server(nm)
    \/ \E nm \in Names : add_client(nm)
    \/ \E nm \in Names : run_provision_admin_mon(nm)
    \/ \E nm \in Names : run_provision_server(nm)
    \/ \E nm \in Names : run_update_storage_fqdn_entries(nm)
    \/ process_exit

SpecCombined == Init /\ [][NextCombined]_vars

(* ------------------------------ properties ----------------------------- *)

\* The record on disk, as load_cluster returns it.
Persisted(nm) == load_cluster(disk, nm)

Field(cluster, k) == Get(cluster, k).items

IsPlaybook(ev, name) == ev.e = "playbook" /\ ev.name = name

Playbooks(name) == SelectSeq(log, LAMBDA ev : IsPlaybook(ev, name))

\* C1: create_cluster on a name that already has a record returns the
\* "already exists" result (None) and leaves the record on disk as it was,
\* whatever the datacenter passed.
C1_CreateExistingRefused ==
    [][\A nm \in Names :
         (op'.name = "create_cluster" /\ op'.cluster = nm /\ disk[nm] # NoFile)
            => /\ result' = "exists"
               /\ mem' = NoneV
               /\ disk'[nm] # NoFile
               /\ load_cluster(disk', nm) = load_cluster(disk, nm)]_vars

C1_Witness ==
    /\ op.name = "create_cluster"
    /\ result = "exists"
    /\ Persisted(op.cluster) # NoneV
    /\ Get(Persisted(op.cluster), "dc").n # op.arg
    /\ Field(Persisted(op.cluster), "servers") # <<>>
    /\ Field(Persisted(op.cluster), "clients") # <<>>

AddOps == {"add_admin_mon_node", "add_mon_node", "add_server", "add_client"}

\* C2: when the provider returns no machine, each add_* operation reports
\* an error, leaves the record on disk exactly as it was and applies no
\* playbook.
C2_NoMachineNoChange ==
    [][(op'.name \in AddOps /\ result' = "error")
          => /\ disk' = disk
             /\ load_cluster(disk', op'.cluster) = load_cluster(disk, op'.cluster)
             /\ Len(log') = 1 /\ log'[1].e = "error_msg"
             /\ mem' = load_cluster(disk, op'.cluster)]_vars

C2_Witness ==
    /\ op.name = "add_client"
    /\ result = "error"
    /\ Field(Persisted(op.cluster), "servers") # <<>>
    /\ Field(Persisted(op.cluster), "clients") # <<>>
    /\ Get(Persisted(op.cluster), "admin").items # <<>>

\* C3: saving a record and loading it back returns the same record: the
\* same fields with the same values in the same order, at every level.
C3_RoundTrip ==
    mem # NoneV =>
        load_cluster(save_cluster(disk, mem), Get(mem, "name").s) = mem

C3_Witness ==
    /\ mem # NoneV
    /\ Has(Get(mem, "admin"), "hostname")
    /\ Has(Get(mem, "admin"), "pubkey")
    /\ Field(mem, "servers") # <<>>
    /\ Field(mem, "clients") # <<>>
    /\ load_cluster(save_cluster(disk, mem), Get(mem, "name").s) = mem

ServerNamesByPosition(cluster) ==
    \A i \in 1..Len(Field(cluster, "servers")) :
        LET server == Field(cluster, "servers")[i]
        IN  /\ Get(server, "shortname") = S("cephosdrgw" \o ToString(i))
            /\ Get(server, "fqdn") =
                   S("cephosdrgw" \o ToString(i) \o "." \o Get(cluster, "name").s)

\* Dropping the pubkey leaves what identifies a server entry.
WithoutPubkey(node) == D(SelectSeq(node.items, LAMBDA kv : kv[1] # "pubkey"))

ServersKept(before, after) ==
    /\ Len(Field(after, "servers")) >= Len(Field(before, "servers"))
    /\ \A i \in 1..Len(Field(before, "servers")) :
           WithoutPubkey(Field(after, "servers")[i])
               = WithoutPubkey(Field(before, "servers")[i])

\* C4: the server at position i of the persisted list is cephosdrgw{i}, with
\* fqdn cephosdrgw{i}.{cluster name}: every step that writes the record leaves
\* it so (no record exists at the start), never deletes it and neither
\* removes nor reorders servers, also when an earlier entry gets its pubkey.
C4_ServerNamesStable ==
    [][\A nm \in Names :
         disk'[nm] = disk[nm]
         \/ \A after \in {load_cluster(disk', nm)} :
               /\ after # NoneV
               /\ ServerNamesByPosition(after)
               /\ disk[nm] = NoFile
                  \/ \A before \in {load_cluster(disk, nm)} : ServersKept(before, after)]_vars

\* Two servers, the first provisioned after the second was added.
C4_Witness ==
    /\ op.name = "provision_server"
    /\ op.arg = 1
    /\ Len(Field(Persisted(op.cluster), "servers")) = 2
    /\ Has(Field(Persisted(op.cluster), "servers")[1], "pubkey")
    /\ ~Has(Field(Persisted(op.cluster), "servers")[2], "pubkey")
    /\ Get(Field(Persisted(op.cluster), "servers")[2], "shortname") = S("cephosdrgw2")

PublicIps(nodes) == [i \in 1..Len(nodes) |-> Get(nodes[i], "public_ip")]

ExpectedHostEntries(nodes) ==
    [i \in 1..Len(nodes) |->
        D(<< <<"ip", Get(nodes[i], "private_ip")>>,
             <<"fqdn", Get(nodes[i], "fqdn")>>,
             <<"shortname", Get(nodes[i], "shortname")>> >>)]

HostsPush(cluster) ==
    LET pushes == Playbooks("ansible/modify_hosts_file.yaml")
        nodes == <<Get(cluster, "admin")>> \o Field(cluster, "monitors")
                                           \o Field(cluster, "servers")
        clients == Field(cluster, "clients")
    IN  /\ Len(pushes) = 1
        /\ Len(Get(pushes[1].vars, "host_entries").items)
               = 1 + Len(Field(cluster, "monitors")) + Len(Field(cluster, "servers"))
        /\ Get(pushes[1].vars, "host_entries") = L(ExpectedHostEntries(nodes))
        /\ Get(pushes[1].vars, "cluster") = Get(cluster, "name")
        /\ pushes[1].target = L(PublicIps(nodes))
        /\ \A i \in 1..Len(clients) :
              /\ \A j \in 1..Len(pushes[1].target.items) :
                     pushes[1].target.items[j] # Get(clients[i], "public_ip")
              /\ \A j \in 1..Len(Get(pushes[1].vars, "host_entries").items) :
                     Get(Get(pushes[1].vars, "host_entries").items[j], "ip")
                         # Get(clients[i], "private_ip")

\* C5: on a cluster with an admin node, update_storage_fqdn_entries makes one
\* playbook call; its host table is the admin, the monitors and the servers
\* in that order (private_ip, fqdn, shortname each), its targets are their
\* public IPs, and no client is in either.
C5_HostsTable ==
    /\ (op.name = "update_storage_fqdn_entries"
           /\ Get(Persisted(op.cluster), "admin").items # <<>>)
         => /\ result = "ok"
            /\ Len(log) = 1
            /\ HostsPush(Persisted(op.cluster))
    \* the same call made from provision_admin_mon
    /\ Playbooks("ansible/modify_hosts_file.yaml") # <<>>
         => HostsPush(Persisted(op.cluster))

C5_Witness ==
    /\ op.name = "update_storage_fqdn_entries"
    /\ result = "ok"
    /\ Get(Persisted(op.cluster), "admin").items # <<>>
    /\ Field(Persisted(op.cluster), "servers") # <<>>
    /\ Field(Persisted(op.cluster), "clients") # <<>>
    /\ Len(Playbooks("ansible/modify_hosts_file.yaml")[1].target.items) = 3

SameField(a, b, k) ==
    /\ Has(a, k) <=> Has(b, k)
    /\ Has(a, k) => Get(a, k) = Get(b, k)

\* C6: on the combined admin+monitor path the persisted admin and
\* monitors[0] have the same id, public_ip, private_ip and pubkey, and the
\* names of their roles: cephadmin / cephmon1, with fqdn <name>.<cluster>.
C6_AdminIsMonitor ==
    \A nm \in Names :
        (Persisted(nm) # NoneV /\ Get(Persisted(nm), "admin").items # <<>>) =>
            LET admin == Get(Persisted(nm), "admin")
                mons == Field(Persisted(nm), "monitors")
            IN  /\ Len(mons) = 1
                /\ Has(admin, "id") /\ Has(admin, "public_ip") /\ Has(admin, "private_ip")
                /\ SameField(admin, mons[1], "id")
                /\ SameField(admin, mons[1], "public_ip")
                /\ SameField(admin, mons[1], "private_ip")
                /\ SameField(admin, mons[1], "pubkey")
                /\ Get(admin, "fqdn") = S("cephadmin." \o nm)
                /\ Get(admin, "shortname") = S("cephadmin")
                /\ Get(mons[1], "fqdn") = S("cephmon1." \o nm)
                /\ Get(mons[1], "shortname") = S("cephmon1")

C6_Witness ==
    /\ op.name = "provision_admin_mon"
    /\ result = "ok"
    /\ Has(Get(Persisted(op.cluster), "admin"), "pubkey")
    /\ Has(Field(Persisted(op.cluster), "monitors")[1], "pubkey")
    /\ Field(Persisted(op.cluster), "servers") # <<>>

AuthorizedKeys == Playbooks("ansible/add_authorized_keys.yaml")

Pubkeys(nodes) == [i \in 1..Len(nodes) |-> Get(nodes[i], "pubkey").s]

\* The newcomer is the last client of the record; the members before it are
\* the earlier clients, then the servers.
KeyExchange(cluster) ==
    LET clients == Field(cluster, "clients")
        k == Len(clients)
        newcomer == clients[k]
        members == SubSeq(clients, 1, k - 1) \o Field(cluster, "servers")
    IN  IF members = <<>>
        THEN AuthorizedKeys = <<>>
        ELSE /\ Len(AuthorizedKeys) = 2
             /\ AuthorizedKeys[1].target = Get(newcomer, "public_ip")
             /\ Get(AuthorizedKeys[1].vars, "keys")
                    = S("\n\n" \o join("\n", Pubkeys(members), 1) \o "\n")
             /\ AuthorizedKeys[2].target = L(PublicIps(members))
             /\ Len(AuthorizedKeys[2].target.items)
                    = (k - 1) + Len(Field(cluster, "servers"))
             /\ Get(AuthorizedKeys[2].vars, "keys")
                    = S(Get(newcomer, "pubkey").s \o "\n")
             /\ \A j \in 1..Len(AuthorizedKeys[2].target.items) :
                    AuthorizedKeys[2].target.items[j] # Get(newcomer, "public_ip")

\* C7: when add_client adds and provisions the k-th client, the keys
\* authorized on it are those of the k-1 earlier clients followed by those of
\* the servers, and its own key is pushed to exactly those machines, never to
\* itself; the first member of a cluster triggers no authorized-keys playbook.
C7_ClientKeyExchange ==
    (op.name = "add_client" /\ result = "ok") => KeyExchange(Persisted(op.cluster))

\* The third client of a cluster without servers: two targets, two keys.
C7_Witness ==
    /\ op.name = "add_client"
    /\ result = "ok"
    /\ Len(Field(Persisted(op.cluster), "clients")) = 3
    /\ Field(Persisted(op.cluster), "servers") = <<>>
    /\ Len(AuthorizedKeys) = 2
    /\ Len(AuthorizedKeys[2].target.items) = 2

ProvisionOps == {"provision_admin_mon", "provision_server", "add_client"}

KeyFileMissing ==
    \E j \in 1..Len(log) :
        log[j].e = "print" /\ log[j].name = "Error: public key not found"

\* The node the last operation provisioned, in the record it worked on.
ProvisionedNode ==
    CASE op.name = "provision_admin_mon" -> Get(mem, "admin")
      [] op.name = "provision_server"    -> Field(mem, "servers")[op.arg]
      [] op.name = "add_client"          -> Field(mem, "clients")[Len(Field(mem, "clients"))]

\* C8: when the public-key file is absent after the provisioning playbook,
\* the operation ends without raising, and the only authorized-keys
\* playbooks of a node left without a pubkey are those applied to the node
\* itself: its own key is pushed to nobody.
C8_MissingKeySkipped ==
    (op.name \in ProvisionOps /\ KeyFileMissing) =>
        /\ result = "ok"
        /\ ~Has(ProvisionedNode, "pubkey") =>
               \A j \in 1..Len(AuthorizedKeys) :
                   AuthorizedKeys[j].target = Get(ProvisionedNode, "public_ip")

\* C9: at the end of every operation the record on disk is the record the
\* operation worked on in memory.
C9_EveryMutationPersisted ==
    mem # NoneV => Persisted(Get(mem, "name").s) = mem

ReachabilityChecked ==
    \A j \in 1..Len(log) :
        log[j].e = "playbook" =>
            \E i \in 1..(j - 1) : log[i].e = "ping" /\ log[i].ok

\* C10: a provisioning operation applies a playbook only after wait_for_ping
\* returned true in the same operation.
C10_PlaybookOnlyAfterPing ==
    op.name \in ProvisionOps => ReachabilityChecked

\* A node carries id, public_ip and private_ip of its machine and the fqdn
\* and shortname of its role.
NodeNamed(node, shortname, name) ==
    /\ \A k \in {"id", "public_ip", "private_ip", "fqdn", "shortname"} : Has(node, k)
    /\ Get(node, "shortname") = S(shortname)
    /\ Get(node, "fqdn") = S(shortname \o "." \o name)

\* create_cluster leaves admin an empty dict until add_admin_mon_node.
AdminNamed(cluster) ==
    Get(cluster, "admin") # D(<<>>) =>
        NodeNamed(Get(cluster, "admin"), "cephadmin", Get(cluster, "name").s)

MonitorsNamed(cluster) ==
    \A i \in 1..Len(Field(cluster, "monitors")) :
        NodeNamed(Field(cluster, "monitors")[i],
                  "cephmon" \o ToString(i), Get(cluster, "name").s)

ServersNamed(cluster) ==
    \A i \in 1..Len(Field(cluster, "servers")) :
        NodeNamed(Field(cluster, "servers")[i],
                  "cephosdrgw" \o ToString(i), Get(cluster, "name").s)

ClientsNamed(cluster) ==
    \A i \in 1..Len(Field(cluster, "clients")) :
        NodeNamed(Field(cluster, "clients")[i],
                  "perfclient-" \o ToString(i), Get(cluster, "name").s)

\* An add operation got its machine and returned normally.
AddSucceeded == op.name \in AddOps /\ result = "ok"

\* The part of C11 about the admin, the monitors and the servers: after a
\* successful add each of them carries the five fields with its role's names.
StorageNodesNamedAfterAdd ==
    AddSucceeded =>
        \A cluster \in {Persisted(op.cluster)} :
            AdminNamed(cluster) /\ MonitorsNamed(cluster) /\ ServersNamed(cluster)

\* C11: after every successful add operation each node of the record on
\* disk (admin, monitors, servers, clients) carries id, public_ip, private_ip
\* and the fqdn and shortname of its role; the client at 1-based position i
\* has shortname perfclient-i and fqdn perfclient-i.<cluster name>.
C11_EveryNodeNamed ==
    AddSucceeded =>
        \A cluster \in {Persisted(op.cluster)} :
            /\ AdminNamed(cluster)
            /\ MonitorsNamed(cluster)
            /\ ServersNamed(cluster)
            /\ ClientsNamed(cluster)
====
